---- MODULE Spec2Model ----
(***************************************************************************)
(* State-machine model of the OTT dashboard server (shihan84/ott):         *)
(* the relational tables of db/schema.ts, the Express handlers of          *)
(* server/routes.ts and the vendor client of server/services/flussonic.ts. *)
(*                                                                         *)
(* A handler is a transition function XStep(d, r): d is the database, r    *)
(* the request with its position (pc) and locals; one application runs the *)
(* handler up to its next await.                                           *)
(* Resume(s, k) applies one such step to the request on connection s, so   *)
(* that other requests run between the awaits; the Serve actions run a     *)
(* handler from arrival to response without interruption (Run).            *)
(***************************************************************************)
EXTENDS Integers, Sequences, FiniteSets, TLC

VARIABLES users, servers, streams, permissions, trafficStats, seq,
          req, now, lastRun, upd, streamsStats, wss, authTokens, client

vars == <<users, servers, streams, permissions, trafficStats, seq,
          req, now, lastRun, upd, streamsStats, wss, authTokens, client>>

(* ---------------------------- bounds ---------------------------------- *)
MaxUsers == 3
MaxServers == 1
MaxStreams == 2
MaxPerms == 1
MaxClock == 1
MaxVendorLen == 1
MaxClients == 2
MaxTicks == 1
MaxSockets == 3
MaxTime == 11
ReconnectDelay == 5
NumSlots == 2

Slots == 1..NumSlots
\* the connection used when requests are issued one at a time
First == CHOOSE s \in Slots : \A t \in Slots : s <= t
Usernames == {"admin", "alice", "bob"}
UserIds == 1..(MaxUsers + 1)
ServerIds == 1..(MaxServers + 1)
StreamIds == 1..(MaxStreams + 1)
StreamKeys == {"cam1", "cam2"}
\* the position of a stream name in the vendor's listing order
KeyRank(k) == IF k = "cam1" THEN 1 ELSE 2
VendorErrors == {"Flussonic API error"}

\* a numeric field missing from the vendor payload
Absent == -1
RawStats == {[bytes_in |-> Absent, bytes_out |-> Absent],
             [bytes_in |-> 5, bytes_out |-> 7]}
\* the stream objects the vendor reports: cam1 without or with counters, cam2
\* with counters
RawStreams == {r \in [name : StreamKeys, stats : RawStats] :
                 r.name = "cam1" \/ r.stats.bytes_in # Absent}
\* the vendor's stream list: stream names are unique on a media server and
\* listed in name order
VendorResponses ==
    {r \in UNION {[1..n -> RawStreams] : n \in 0..MaxVendorLen} :
        \A i, j \in 1..Len(r) : i < j => KeyRank(r[i].name) < KeyRank(r[j].name)}

AuthErrors == {"Invalid username or password"}
\* the id of an object that has none: compared with a column it matches no row
Undefined == 0
NULL == "null"
\* a timestamp column holding SQL NULL
NoTime == -1
Idle == [pc |-> "idle", kind |-> "none", status |-> 0]
\* the websocket clients that are followed; a connection with client 0 is not
ClientIds == 1..MaxClients
\* the WebSocketServer with no client: the open clients, the last message each
\* has received per stream, and the number of selects made for them
NoClients == [clients |-> {}, inbox |-> {}, reads |-> 0]

(* ------------------------- relational schema --------------------------- *)
\* the tables and the serial counters, as one value
DB == [users |-> users, servers |-> servers, streams |-> streams,
       permissions |-> permissions, trafficStats |-> trafficStats, seq |-> seq,
       upd |-> upd, streamsStats |-> streamsStats, wss |-> wss,
       authTokens |-> authTokens]

\* permissions.userId references users.id (no cascade)
UserReferenced(d, uid) == \E p \in d.permissions : p.userId = uid
\* permissions.streamId and trafficStats.streamId reference streams.id
StreamReferenced(d, sid) ==
    \/ \E p \in d.permissions : p.streamId = sid
    \/ \E t \in d.trafficStats : t.streamId = sid
\* streams.serverId references servers.id
ServerReferenced(d, sid) == \E st \in d.streams : st.serverId = sid

Admins(us) == {u \in us : u.isAdmin}

(* ------------------------------ state ---------------------------------- *)
\* the fields of a StreamWebSocket before its constructor runs, with the
\* browser's sockets and timers it has made and the browser's clock (seconds)
NoSocket == [ws |-> 0, reconnectTimer |-> 0, sockets |-> <<>>, timers |-> {},
             clock |-> 0, closed |-> <<>>]

\* this.ws = new WebSocket(...)
connect(c) ==
    [c EXCEPT !.sockets = Append(@, [state |-> "open", openedAt |-> c.clock, closedAt |-> NoTime]),
              !.ws = Len(c.sockets) + 1]

\* an installation with its admin and one ordinary user, no server yet
Init ==
    /\ users = {[id |-> 1, username |-> "admin", isAdmin |-> TRUE],
                [id |-> 2, username |-> "alice", isAdmin |-> FALSE]}
    /\ servers = {}
    /\ streams = {}
    /\ permissions = {}
    /\ trafficStats = {}
    /\ seq = [users |-> 3, servers |-> 1, streams |-> 1, permissions |-> 1, trafficStats |-> 1]
    /\ req = [s \in Slots |-> Idle]
    /\ now = 0
    /\ lastRun = <<>>
    /\ upd = {}
    /\ streamsStats = {}
    /\ wss = NoClients
    /\ authTokens = {}
    /\ client = connect(NoSocket)

\* requireAdmin: the session user is an admin
requireAdmin(d) == {u \in d.users : u.isAdmin}
\* requireAuth: any logged-in user
requireAuth(d) == d.users

\* res.status(code).send(...): the handler is finished
Respond(d, r, code) == [d |-> d, r |-> [r EXCEPT !.pc = "done", !.status = code]]
\* a response whose body is not modelled
Bare(r) == [pc |-> r.pc, kind |-> r.kind, status |-> r.status]
\* the handler moves on to its next await
Goto(d, r, pc) == [d |-> d, r |-> [r EXCEPT !.pc = pc]]

(* ------------------------- POST /api/users ----------------------------- *)
PostUserRequests(d) ==
    IF requireAdmin(d) = {} \/ d.seq.users > MaxUsers THEN {}
    ELSE {[pc |-> "select", kind |-> "PostUser", status |-> 0, username |-> n, isAdmin |-> a] :
            n \in Usernames, a \in BOOLEAN}

PostUserStep(d, r) ==
    IF r.pc = "select"
      THEN IF \E u \in d.users : u.username = r.username
             THEN {Respond(d, Bare(r), 400)}
             ELSE {Goto(d, r, "insert")}
      ELSE IF \E u \in d.users : u.username = r.username
             THEN \* unique(username) violated: caught, 500
                  {Respond(d, Bare(r), 500)}
             ELSE {Respond([d EXCEPT !.users = @ \cup {[id |-> d.seq.users, username |-> r.username,
                                                        isAdmin |-> r.isAdmin]},
                                     !.seq.users = @ + 1], Bare(r), 200)}

(* ----------------------- DELETE /api/users/:id ------------------------- *)
DeleteUserRequests(d) ==
    {[pc |-> "count", kind |-> "DeleteUser", status |-> 0, byAdmin |-> a.isAdmin,
      userId |-> i] : a \in requireAdmin(d), i \in UserIds}

DeleteUserBlockedMutant(isAdmin, us) == isAdmin /\ Cardinality(Admins(us)) < 1

\* the last-admin guard: req.user.isAdmin and count(isAdmin) <= 1
DeleteUserBlocked(isAdmin, us) == isAdmin /\ Cardinality(Admins(us)) <= 1

DeleteUserStep(d, r) ==
    IF r.pc = "count"
      THEN IF DeleteUserBlocked(r.byAdmin, d.users)
             THEN {Respond(d, r, 400)}
             ELSE {Goto(d, r, "delete")}
      ELSE LET target == {u \in d.users : u.id = r.userId} IN
             IF target # {} /\ UserReferenced(d, r.userId)
               THEN \* foreign key permissions.user_id: the delete throws, 500
                    {Respond(d, r, 500)}
               ELSE {Respond([d EXCEPT !.users = @ \ target], r,
                             IF target = {} THEN 404 ELSE 200)}

(* ------------------------ POST /api/servers ---------------------------- *)
PostServerRequests(d) ==
    IF requireAdmin(d) = {} THEN {}
    ELSE {[pc |-> "validate", kind |-> "PostServer", status |-> 0, valid |-> FALSE]}

\* validateAuth throws: its catch writes the error on the rows whose id is the
\* id of the server object it was given, and rethrows
ValidateAuthThrowsMutant(d, id, msg) ==
    [d EXCEPT !.servers = {[sv EXCEPT !.lastError = msg, !.lastErrorAt = now] : sv \in @}]

ValidateAuthThrows(d, id, msg) ==
    [d EXCEPT !.servers = {IF sv.id = id
                             THEN [sv EXCEPT !.lastError = msg, !.lastErrorAt = now]
                             ELSE sv : sv \in @}]

\* validateAuth either returns or throws; only then the row is inserted.
\* The server object validated here is the request body, which has no id.
\* Once MaxServers rows were inserted the vendor accepts no further server.
PostServerStep(d, r) ==
    IF r.pc = "validate"
      THEN {Goto(d, [r EXCEPT !.valid = TRUE], "insert") : x \in {1} \cap 1..(MaxServers + 1 - d.seq.servers)}
           \cup {Respond(ValidateAuthThrows(d, Undefined, msg), r, 400) : msg \in AuthErrors}
      ELSE {Respond([d EXCEPT !.servers = @ \cup {[id |-> d.seq.servers, status |-> "online",
                                                   lastError |-> NULL, lastErrorAt |-> NoTime]},
                              !.seq.servers = @ + 1], r, 200)}

(* --------------------- POST /api/servers/:id/test ---------------------- *)
TestServerRequests(d) ==
    IF requireAdmin(d) = {} THEN {}
    ELSE {[pc |-> "select", kind |-> "TestServer", status |-> 0, serverId |-> i,
           valid |-> FALSE, error |-> NULL, body |-> <<>>] : i \in ServerIds}

\* update ... where id = serverId returning: the rows written
ServerReturning(d, serverId) == {sv \in d.servers : sv.id = serverId}

TestServerOutcomeMutant(d, r) ==
    [d EXCEPT !.servers = {IF sv.id = r.serverId
                             THEN [sv EXCEPT !.status = "online", !.lastError = NULL,
                                             !.lastErrorAt = NoTime]
                             ELSE sv : sv \in @}]

\* the row after the test: online and cleared, or offline with the error
TestServerOutcome(d, r) ==
    [d EXCEPT !.servers = {IF sv.id = r.serverId
                             THEN IF r.valid
                                    THEN [sv EXCEPT !.status = "online", !.lastError = NULL,
                                                    !.lastErrorAt = NoTime]
                                    ELSE [sv EXCEPT !.status = "offline", !.lastError = r.error,
                                                    !.lastErrorAt = now]
                             ELSE sv : sv \in @}]

TestServerStep(d, r) ==
    CASE r.pc = "select" ->
           IF \E sv \in d.servers : sv.id = r.serverId
             THEN {Goto(d, r, "validate")}
             ELSE {Respond(d, r, 404)}
      [] r.pc = "validate" ->
           {Goto(d, [r EXCEPT !.valid = TRUE], "update")}
           \cup {Goto(ValidateAuthThrows(d, r.serverId, msg), [r EXCEPT !.error = msg], "update")
                    : msg \in AuthErrors}
      [] OTHER ->
           LET d2 == TestServerOutcome(d, r)
               row == ServerReturning(d2, r.serverId)
               r2 == [r EXCEPT !.body = IF row = {} THEN <<>> ELSE <<CHOOSE sv \in row : TRUE>>]
           IN {Respond(d2, r2, IF r.valid THEN 200 ELSE 400)}

(* ---------------------- DELETE /api/servers/:id ------------------------ *)
DeleteServerRequests(d) ==
    IF requireAdmin(d) = {} THEN {}
    ELSE {[pc |-> "streams", kind |-> "DeleteServer", status |-> 0, serverId |-> i,
           found |-> \E sv \in d.servers : sv.id = i,
           owned |-> {st.id : st \in {x \in d.streams : x.serverId = i}}] : i \in ServerIds}

DeleteServerStep(d, r) ==
    IF r.pc = "streams"
      THEN LET mine == {st \in d.streams : st.serverId = r.serverId} IN
             IF \E st \in mine : StreamReferenced(d, st.id)
               THEN \* foreign key stream_id of permissions / traffic_stats: 500
                    {Respond(d, r, 500)}
               ELSE {Goto([d EXCEPT !.streams = @ \ mine], r, "server")}
      ELSE LET target == {sv \in d.servers : sv.id = r.serverId} IN
             IF target # {} /\ ServerReferenced(d, r.serverId)
               THEN \* foreign key streams.server_id: the delete throws, 500
                    {Respond(d, r, 500)}
               ELSE {Respond([d EXCEPT !.servers = @ \ target], r,
                             IF target = {} THEN 404 ELSE 200)}

(* ------------------------ POST /api/streams ---------------------------- *)
PostStreamRequests(d) ==
    IF requireAdmin(d) = {} \/ d.seq.streams > MaxStreams THEN {}
    ELSE {[pc |-> "insert", kind |-> "PostStream", status |-> 0, serverId |-> i, streamKey |-> k] :
            i \in ServerIds, k \in StreamKeys}

\* a single insert with the column defaults; there is no try/catch, so a
\* failing insert (unknown serverId) leaves the request without a response
PostStreamStep(d, r) ==
    IF \E sv \in d.servers : sv.id = r.serverId
      THEN {Respond([d EXCEPT !.streams = @ \cup {[id |-> d.seq.streams, serverId |-> r.serverId,
                                                   name |-> r.streamKey, streamKey |-> r.streamKey,
                                                   streamStatus |-> <<>>, active |-> FALSE,
                                                   lastSeen |-> NoTime]},
                              !.seq.streams = @ + 1], Bare(r), 200)}
      ELSE {Respond(d, Bare(r), 0)}

(* ---------------------- POST /api/permissions -------------------------- *)
\* has the pair a permission row
HasPermission(d, userId, streamId) ==
    \E p \in d.permissions : p.userId = userId /\ p.streamId = streamId

\* once MaxPerms rows were inserted only grants of existing pairs are asked for
PostPermissionRequests(d) ==
    IF requireAdmin(d) = {} THEN {}
    ELSE {r \in {[pc |-> "select", kind |-> "PostPermission", status |-> 0, userId |-> u, streamId |-> i] :
                   u \in UserIds, i \in StreamIds} :
            d.seq.permissions <= MaxPerms \/ HasPermission(d, r.userId, r.streamId)}

PermissionExistsMutant(d, r) == FALSE

\* select ... where userId = and streamId = limit 1
PermissionExists(d, r) == HasPermission(d, r.userId, r.streamId)

PostPermissionStep(d, r) ==
    IF r.pc = "select"
      THEN IF PermissionExists(d, r)
             THEN {Respond(d, r, 400)}
             ELSE {Goto(d, r, "insert")}
      ELSE IF /\ \E u \in d.users : u.id = r.userId
              /\ \E st \in d.streams : st.id = r.streamId
             THEN {Respond([d EXCEPT !.permissions = @ \cup {[id |-> d.seq.permissions,
                                                              userId |-> r.userId,
                                                              streamId |-> r.streamId]},
                                     !.seq.permissions = @ + 1], Bare(r), 200)}
             ELSE \* foreign key user_id / stream_id: the insert throws, 500
                  {Respond(d, Bare(r), 500)}

(* --------------- DELETE /api/permissions/:userId/:streamId ------------- *)
DeletePermissionRequests(d) ==
    IF requireAdmin(d) = {} THEN {}
    ELSE {[pc |-> "delete", kind |-> "DeletePermission", status |-> 0, userId |-> u, streamId |-> i] :
            u \in UserIds, i \in StreamIds}

DeletePermissionStep(d, r) ==
    LET hit == {p \in d.permissions : p.userId = r.userId /\ p.streamId = r.streamId} IN
      {Respond([d EXCEPT !.permissions = @ \ hit], Bare(r), IF hit = {} THEN 404 ELSE 200)}

(* ----------------- access-control filter (the joins) ------------------- *)
\* streams inner join servers
AdminRows(d, sts) == {st \in sts : \E sv \in d.servers : sv.id = st.serverId}

UserRowsMutant(d, sts, user) ==
    {st \in sts : /\ \E sv \in d.servers : sv.id = st.serverId
                  /\ \E p \in d.permissions : p.streamId = st.id}

\* streams inner join permissions inner join servers where permissions.userId = user.id
UserRows(d, sts, user) ==
    {st \in sts : /\ \E sv \in d.servers : sv.id = st.serverId
                  /\ \E p \in d.permissions : p.streamId = st.id /\ p.userId = user.id}

VisibleRows(d, sts, user) == IF user.isAdmin THEN AdminRows(d, sts) ELSE UserRows(d, sts, user)

(* --------------------- GET /api/streams/permitted ---------------------- *)
GetPermittedRequests(d) ==
    {[pc |-> "query", kind |-> "GetPermitted", status |-> 0, actor |-> a, rows |-> {}] :
        a \in requireAuth(d)}

GetPermittedStep(d, r) ==
    {Respond(d, [r EXCEPT !.rows = VisibleRows(d, d.streams, r.actor)], 200)}

(* --------------------- GET /api/streams/:streamId ---------------------- *)
GetStreamRequests(d) ==
    {[pc |-> "query", kind |-> "GetStream", status |-> 0, actor |-> a, streamId |-> i, rows |-> {}] :
        a \in requireAuth(d), i \in StreamIds}

GetStreamLookupMutant(d, r) == AdminRows(d, {st \in d.streams : st.id = r.streamId})

GetStreamLookup(d, r) == VisibleRows(d, {st \in d.streams : st.id = r.streamId}, r.actor)

GetStreamStep(d, r) ==
    LET found == GetStreamLookup(d, r) IN
      IF found = {} THEN {Respond(d, r, 404)}
                    ELSE {Respond(d, [r EXCEPT !.rows = found], 200)}

(* ----------------- FlussonicService.getStreams ------------------------- *)
\* `x || 0`: an absent (or zero) counter becomes 0
OrZero(x) == IF x = Absent \/ x = 0 THEN 0 ELSE x

getStreams(raw) ==
    [i \in 1..Len(raw) |->
        [name |-> raw[i].name,
         stats |-> [bytes_in |-> OrZero(raw[i].stats.bytes_in),
                    bytes_out |-> OrZero(raw[i].stats.bytes_out)]]]

\* makeAuthenticatedRequest's catch: the error is written on the server row
RecordServerError(d, serverId, msg) ==
    [d EXCEPT !.servers = {IF sv.id = serverId
                             THEN [sv EXCEPT !.lastError = msg, !.lastErrorAt = now]
                             ELSE sv : sv \in @}]

(* ----------------- GET /api/servers/:serverId/streams ------------------ *)
\* the columns of a stream row other than lastSeen
Ident(sts) == {[id |-> st.id, serverId |-> st.serverId, name |-> st.name, streamKey |-> st.streamKey,
                active |-> st.active, streamStatus |-> st.streamStatus] : st \in sts}

ReconRequests(d) ==
    {[pc |-> "server", kind |-> "GetServerStreams", status |-> 0, actor |-> a, serverId |-> i,
      list |-> <<>>, todo |-> <<>>, existing |-> 0, newId |-> 0, inserted |-> {}, rows |-> {}] :
        a \in requireAuth(d), i \in ServerIds}

\* the vendor lists that fit the bounds of the model
FittingResponses(d, r) ==
    {raw \in VendorResponses :
        LET fresh == {i \in 1..Len(raw) :
                        ~\E st \in d.streams : st.serverId = r.serverId /\ st.streamKey = raw[i].name}
        IN /\ d.seq.streams + Cardinality(fresh) - 1 <= MaxStreams
           /\ r.actor.isAdmin => d.seq.permissions + Cardinality(fresh) - 1 <= MaxPerms}

\* the position after the current vendor stream has been handled
ReconAdvance(r) ==
    [r EXCEPT !.todo = Tail(@), !.existing = 0, !.newId = 0,
              !.pc = IF Len(r.todo) = 1 THEN "query" ELSE "select"]

NewStreamRowMutant(d, r) ==
    [id |-> d.seq.streams, serverId |-> r.serverId, name |-> Head(r.todo).name,
     streamKey |-> Head(r.todo).name, streamStatus |-> <<Head(r.todo)>>, active |-> FALSE,
     lastSeen |-> now]

NewStreamRow(d, r) ==
    [id |-> d.seq.streams, serverId |-> r.serverId, name |-> Head(r.todo).name,
     streamKey |-> Head(r.todo).name, streamStatus |-> <<Head(r.todo)>>, active |-> TRUE,
     lastSeen |-> now]

\* select ... from streams where serverId = and streamKey = limit 1
ReconLookup(d, r) ==
    {st \in d.streams : st.serverId = r.serverId /\ st.streamKey = Head(r.todo).name}

ReconStep(d, r) ==
    CASE r.pc = "server" ->
           IF \E sv \in d.servers : sv.id = r.serverId
             THEN {Goto(d, r, "fetch")}
             ELSE {Respond(d, r, 404)}
      [] r.pc = "fetch" ->
           \* the vendor call fails (500, lastError recorded) or returns a list
           {Respond(RecordServerError(d, r.serverId, msg), r, 500) : msg \in VendorErrors}
           \cup {Goto(d, [r EXCEPT !.list = getStreams(raw), !.todo = getStreams(raw)],
                      IF raw = <<>> THEN "query" ELSE "select") : raw \in FittingResponses(d, r)}
      [] r.pc = "select" ->
           IF ReconLookup(d, r) = {}
             THEN {Goto(d, r, "insert")}
             ELSE {Goto(d, [r EXCEPT !.existing = st.id], "update") : st \in ReconLookup(d, r)}
      [] r.pc = "insert" ->
           IF \E sv \in d.servers : sv.id = r.serverId
             THEN LET d2 == [d EXCEPT !.streams = @ \cup {NewStreamRow(d, r)}, !.seq.streams = @ + 1]
                      r2 == [r EXCEPT !.newId = d.seq.streams, !.inserted = @ \cup {d.seq.streams}]
                  IN IF r.actor.isAdmin
                       THEN {Goto(d2, r2, "perm")}
                       ELSE {[d |-> d2, r |-> ReconAdvance(r2)]}
             ELSE \* foreign key server_id: the insert throws, 500
                  {Respond(d, r, 500)}
      [] r.pc = "perm" ->
           \* the admin who triggered the insert is granted the new stream
           IF /\ \E u \in d.users : u.id = r.actor.id
              /\ \E st \in d.streams : st.id = r.newId
             THEN {[d |-> [d EXCEPT !.permissions = @ \cup {[id |-> d.seq.permissions,
                                                             userId |-> r.actor.id,
                                                             streamId |-> r.newId]},
                                    !.seq.permissions = @ + 1],
                    r |-> ReconAdvance(r)]}
             ELSE {Respond(d, r, 500)}
      [] r.pc = "update" ->
           {[d |-> [d EXCEPT !.streams = {IF st.id = r.existing
                                            THEN [st EXCEPT !.active = TRUE, !.lastSeen = now,
                                                            !.streamStatus = <<Head(r.todo)>>]
                                            ELSE st : st \in @}],
             r |-> ReconAdvance(r)]}
      [] r.pc = "query" ->
           \* the final select, filtered by the access-control join
           {Respond(d, [r EXCEPT !.rows = VisibleRows(d, {st \in d.streams : st.serverId = r.serverId},
                                                      r.actor)], 200)}

(* ------------- POST / DELETE /api/streams/:streamId/push --------------- *)
Rtmp == <<"r", "t", "m", "p", ":", "/", "/">>
Rtmps == <<"r", "t", "m", "p", "s", ":", "/", "/">>
Http == <<"h", "t", "t", "p", ":", "/", "/">>
\* candidate values of req.body.url: missing, not a string, or a string
UrlStrings == {<<>>, Http \o <<"h">>, Rtmp \o <<"h">>, Rtmps \o <<"h">>,
               <<"r", "t", "m", "p", ":", "/", "h">>, <<"x">> \o Rtmp \o <<"h">>,
               <<"R", "T", "M", "P", ":", "/", "/", "h">>}
PushBodies == {[type |-> "undefined", str |-> <<>>], [type |-> "number", str |-> <<>>]}
              \cup {[type |-> "string", str |-> u] : u \in UrlStrings}

StartsWith(str, prefix) ==
    Len(str) >= Len(prefix) /\ SubSeq(str, 1, Len(prefix)) = prefix

\* url.match(/^(rtmp|rtmps):\/\//)
MatchesRtmp(str) == StartsWith(str, Rtmp) \/ StartsWith(str, Rtmps)

\* !url || typeof url !== 'string'
NotAString(url) == url.type # "string" \/ url.str = <<>>

PushRequests(d, kind) ==
    {[pc |-> "stream", kind |-> kind, status |-> 0, actor |-> a, streamId |-> i, url |-> b,
      streamKey |-> NULL, serverId |-> 0, call |-> <<>>] :
        a \in requireAuth(d), i \in StreamIds, b \in PushBodies}

\* the part of both handlers after the body checks: stream, server, vendor call
PushForward(d, r, op) ==
    CASE r.pc = "stream" ->
           LET found == {st \in d.streams : st.id = r.streamId} IN
             IF found = {} THEN {Respond(d, r, 404)}
             ELSE {Goto(d, [r EXCEPT !.streamKey = st.streamKey, !.serverId = st.serverId],
                        "server") : st \in found}
      [] r.pc = "server" ->
           IF \E sv \in d.servers : sv.id = r.serverId
             THEN {Goto(d, r, "vendor")}
             ELSE {Respond(d, r, 404)}
      [] r.pc = "vendor" ->
           LET call == [op |-> op, serverId |-> r.serverId, streamKey |-> r.streamKey,
                        url |-> r.url.str]
               r2 == [r EXCEPT !.call = <<call>>]
           IN {Respond(d, r2, 200)}
              \cup {Respond(RecordServerError(d, r.serverId, msg), r2, 500) : msg \in VendorErrors}

PostPushChecksMutant(r) == NotAString(r.url)

\* the body checks of POST .../push
PostPushChecks(r) == NotAString(r.url) \/ ~MatchesRtmp(r.url.str)

PostPushStep(d, r) ==
    IF r.pc = "stream" /\ PostPushChecks(r)
      THEN {Respond(d, r, 400)}
      ELSE PushForward(d, r, "addPushDestination")

\* the body check of DELETE .../push
DeletePushChecks(r) == NotAString(r.url)

DeletePushStep(d, r) ==
    IF r.pc = "stream" /\ DeletePushChecks(r)
      THEN {Respond(d, r, 400)}
      ELSE PushForward(d, r, "removePushDestination")

(* ----------------------- updateTrafficStats ---------------------------- *)
\* the unique indexes db:push creates from the schema
UniqueIndexes ==
    {[table |-> "users", cols |-> {"id"}], [table |-> "users", cols |-> {"username"}],
     [table |-> "servers", cols |-> {"id"}], [table |-> "streams", cols |-> {"id"}],
     [table |-> "permissions", cols |-> {"id"}], [table |-> "traffic_stats", cols |-> {"id"}]}

\* ON CONFLICT (cols) needs a unique index on exactly these columns;
\* without one the statement is rejected
ConflictTargetOK(table, cols) == \E ix \in UniqueIndexes : ix.table = table /\ ix.cols = cols

\* now.getFullYear(), now.getMonth() + 1: the clock counts months
Year(t) == 2025 + (t \div 12)
Month(t) == (t % 12) + 1

\* insert ... on conflict (stream_id, year, month) do update
UpsertTraffic(d, sid, bytesIn, bytesOut) ==
    LET hit == {t \in d.trafficStats :
                  t.streamId = sid /\ t.year = Year(now) /\ t.month = Month(now)}
    IN IF ~ConflictTargetOK("traffic_stats", {"streamId", "year", "month"})
            \/ ~\E st \in d.streams : st.id = sid
         THEN \* the statement throws; the catch logs it
              d
         ELSE IF hit = {}
                THEN [d EXCEPT !.trafficStats = @ \cup {[id |-> d.seq.trafficStats, streamId |-> sid,
                                                         year |-> Year(now), month |-> Month(now),
                                                         bytesIn |-> bytesIn, bytesOut |-> bytesOut,
                                                         lastUpdated |-> now]},
                               !.seq.trafficStats = @ + 1]
                ELSE [d EXCEPT !.trafficStats =
                        {IF t \in hit THEN [t EXCEPT !.bytesIn = bytesIn, !.bytesOut = bytesOut,
                                                     !.lastUpdated = now]
                                      ELSE t : t \in @}]

\* the calls of updateTrafficStats of the current month that reached the
\* insert: per stream the number of calls (1, or 2 for more) and the values
\* of the last
NoteUpdate(d, sid, bytesIn, bytesOut) ==
    LET old == {u \in d.upd : u.streamId = sid /\ u.year = Year(now) /\ u.month = Month(now)}
    IN [d EXCEPT !.upd = (@ \ old) \cup {[streamId |-> sid, year |-> Year(now), month |-> Month(now),
                                          n |-> IF old = {} THEN 1 ELSE 2,
                                          bytesIn |-> bytesIn, bytesOut |-> bytesOut]}]

updateTrafficStats(d, stream) ==
    IF stream.streamStatus = <<>>
      THEN d
      ELSE LET stats == stream.streamStatus[1].stats IN
             UpsertTraffic(NoteUpdate(d, stream.id, stats.bytes_in, stats.bytes_out),
                           stream.id, stats.bytes_in, stats.bytes_out)

(* ------------------ websocket: sendInitialStats ------------------------ *)
\* the rows of a select without order by, in id order
RECURSIVE InIdOrder(_)
InIdOrder(sts) ==
    IF sts = {} THEN <<>>
    ELSE LET st == CHOOSE x \in sts : \A y \in sts : x.id <= y.id
         IN <<st>> \o InIdOrder(sts \ {st})

StatsMessageMutant(stream) ==
    [type |-> "stats", streamId |-> stream.id, data |-> [stream.streamStatus[1] EXCEPT !.stats.bytes_in = 0]]

\* the message built from one stream row
StatsMessage(stream) ==
    [type |-> "stats", streamId |-> stream.id, data |-> stream.streamStatus[1]]

\* ws.send / client.send: the message is the last one the clients cs got for
\* its stream; readSeq numbers the select that read it
Deliver(d, cs, msg, readSeq) ==
    [d EXCEPT !.wss.inbox = {e \in @ : ~(e.client \in cs /\ e.streamId = msg.streamId)}
                            \cup {[client |-> c, streamId |-> msg.streamId, readSeq |-> readSeq,
                                   data |-> msg.data] : c \in cs}]

\* the rows the loop still has to send: `if (stream.streamStatus)`
WithStatus(rows) == SelectSeq(rows, LAMBDA st : st.streamStatus # <<>>)

\* a connection that is not followed
InitialStatsRequests(d) ==
    {[pc |-> "read", kind |-> "InitialStats", status |-> 0, client |-> 0, readSeq |-> 0,
      todo |-> <<>>, sent |-> <<>>]}

\* the next followed client connects
ConnectRequests(d) ==
    {[r EXCEPT !.client = c] : r \in InitialStatsRequests(d),
                               c \in {x \in ClientIds : \A y \in ClientIds \ d.wss.clients : x <= y}
                                     \ d.wss.clients}

\* a client connects: every stream with a snapshot is sent, each send
\* followed by the awaited traffic update of that stream. The first step is
\* the select and the first send, every later step one further send.
InitialStatsStep(d, r) ==
    LET followed == {r.client} \cap ClientIds
        d1 == IF r.pc = "read" /\ followed # {}
                THEN [d EXCEPT !.wss.clients = @ \cup followed, !.wss.reads = @ + 1]
                ELSE d
        r1 == IF r.pc = "read"
                THEN [r EXCEPT !.todo = WithStatus(InIdOrder(d.streams)), !.readSeq = d1.wss.reads]
                ELSE r
    IN IF r1.todo = <<>> THEN {Respond(d1, r1, 101)}
       ELSE LET stream == Head(r1.todo)
                r2 == [r1 EXCEPT !.todo = Tail(@), !.sent = Append(@, StatsMessage(stream))]
                d2 == updateTrafficStats(Deliver(d1, followed, StatsMessage(stream), r1.readSeq), stream)
            IN IF r2.todo = <<>> THEN {Respond(d2, r2, 101)} ELSE {Goto(d2, r2, "send")}

(* ------------------- websocket: broadcastStats ------------------------- *)
\* the interval callback fires, MaxTicks times (every connection and every
\* tick makes one select)
BroadcastRequests(d) ==
    IF d.wss.reads >= Cardinality(d.wss.clients) + MaxTicks THEN {}
    ELSE {[pc |-> "read", kind |-> "Broadcast", status |-> 0, readSeq |-> 0, todo |-> <<>>,
           sent |-> <<>>, threw |-> 0, referenceError |-> FALSE]}

\* one pass of wss.clients.forEach: every open client is sent the message, or
\* the send to client c throws and the clients after it are not reached
ForEachClient(d, c) == {x \in d.wss.clients : c = 0 \/ x < c}

\* the first step is the select and the first forEach, every later step one
\* further forEach; a throw inside forEach reaches the catch around the loop
BroadcastStep(d, r) ==
    IF r.pc = "read" /\ d.wss.clients = {} THEN {Respond(d, r, 0)}
    ELSE
    LET d1 == IF r.pc = "read" THEN [d EXCEPT !.wss.reads = @ + 1] ELSE d
        r1 == IF r.pc = "read"
                THEN [r EXCEPT !.todo = WithStatus(InIdOrder(d.streams)), !.readSeq = d1.wss.reads]
                ELSE r
    IN IF r1.todo = <<>> THEN {Respond(d1, r1, 0)}
       ELSE LET stream == Head(r1.todo)
                msg == StatsMessage(stream)
                After(c) ==
                    [d |-> Deliver(d1, ForEachClient(d1, c), msg, r1.readSeq),
                     r |-> [r1 EXCEPT !.sent = Append(@, [type |-> msg.type, streamId |-> msg.streamId,
                                                         data |-> msg.data, to |-> ForEachClient(d1, c)]),
                                      !.threw = c]]
            IN \* every send returns, then the traffic update is awaited
               {LET n == After(0)
                    d2 == updateTrafficStats(n.d, stream)
                    r2 == [n.r EXCEPT !.todo = Tail(@)]
                IN IF r2.todo = <<>> THEN Respond(d2, r2, 0) ELSE Goto(d2, r2, "send")}
               \* the send to client c throws
               \cup {Respond(After(c).d, [After(c).r EXCEPT !.todo = <<>>], 0) : c \in d1.wss.clients}
               \* `WebSocket` is no global of the runtime: WebSocket.OPEN throws
               \cup {Respond(d1, [r1 EXCEPT !.todo = <<>>, !.referenceError = TRUE], 0)
                       : x \in {1} \cap {Len(r1.sent) + 1}}

(* ------------- the polling loop (setupFlussonicIntegration) ------------ *)
\* the stats value written for a stream the vendor did not list
OfflineStats == [status |-> "offline", bandwidth |-> 0]

\* fetchServerStats: the vendor's list mapped to stats objects
fetchServerStats(raw) ==
    [i \in 1..Len(raw) |-> [name |-> raw[i].name,
                            stats |-> [status |-> "online", bandwidth |-> OrZero(raw[i].stats.bytes_in)]]]

\* update(streams).set({ stats }).where(id = streamId): the stats column of
\* the stream rows is kept in streamsStats, a row without an entry holds null
SetStats(d, streamId, value) ==
    [d EXCEPT !.streamsStats = {e \in @ : e.id # streamId} \cup {[id |-> streamId, stats |-> value]}]

\* the interval callback fires
PollRequests(d) ==
    {[pc |-> "servers", kind |-> "Poll", status |-> 0, all |-> <<>>, rest |-> <<>>, stats |-> <<>>,
      todo |-> <<>>, fetched |-> {}, failed |-> {}, wrote |-> {}, absent |-> {}, aborted |-> FALSE]}

\* updateStreamStats has returned: the loop moves to the next server
PollAdvance(d, r) ==
    IF Len(r.rest) = 1
      THEN Respond(d, [r EXCEPT !.rest = <<>>, !.todo = <<>>, !.stats = <<>>], 0)
      ELSE Goto(d, [r EXCEPT !.rest = Tail(@), !.todo = <<>>, !.stats = <<>>], "fetch")

\* one update of updateStreamStats
PollWrite(d, r, stream, value) == SetStats(d, stream.id, value)

PollStep(d, r) ==
    CASE r.pc = "servers" ->
           LET allServers == InIdOrder(d.servers) IN
             IF allServers = <<>> THEN {Respond(d, r, 0)}
             ELSE {Goto(d, [r EXCEPT !.all = [i \in 1..Len(allServers) |-> allServers[i].id],
                                     !.rest = allServers], "fetch")}
      [] r.pc = "fetch" ->
           LET server == Head(r.rest)
               r1 == [r EXCEPT !.fetched = @ \cup {server.id}]
           IN \* fetchServerStats: the error is recorded, logged, and [] returned
              {Goto(RecordServerError(d, server.id, msg),
                    [r1 EXCEPT !.stats = <<>>, !.failed = @ \cup {server.id}], "streams")
                 : msg \in VendorErrors}
              \cup {Goto(d, [r1 EXCEPT !.stats = fetchServerStats(raw)], "streams")
                       : raw \in VendorResponses}
      [] r.pc = "streams" ->
           LET serverStreams == InIdOrder({st \in d.streams : st.serverId = Head(r.rest).id}) IN
             IF serverStreams = <<>> THEN {PollAdvance(d, r)}
             ELSE {Goto(d, [r EXCEPT !.todo = serverStreams], "write")}
      [] r.pc = "write" ->
           LET stream == Head(r.todo)
               listed == {i \in 1..Len(r.stats) : r.stats[i].name = stream.streamKey}
               value == IF listed = {} THEN OfflineStats
                        ELSE r.stats[CHOOSE i \in listed : \A j \in listed : i <= j].stats
               r2 == [r EXCEPT !.todo = Tail(@), !.wrote = @ \cup {stream.id},
                               !.absent = IF listed = {} /\ stream.serverId \notin r.failed
                                            THEN @ \cup {stream.id} ELSE @]
               d2 == PollWrite(d, r, stream, value)
           IN \* the statement succeeds, or it throws and the callback's catch
              \* ends the tick
              {IF Len(r.todo) = 1 THEN PollAdvance(d2, r2) ELSE Goto(d2, r2, "write")}
              \cup {Respond(d, [r EXCEPT !.aborted = TRUE, !.todo = <<>>, !.stats = <<>>,
                                         !.rest = <<>>], 0)}

(* ------------ FlussonicService with bearer tokens (token cache) -------- *)
\* the vendor's answers to POST /api/v3/auth: a token and its lifetime
AuthResponses == [token : {"t1", "t2"}, expires : 0..MaxClock]

CachedAuthMutant(cache, serverId) == {e \in cache : e.serverId = serverId /\ e.expires >= now}

\* cachedAuth && cachedAuth.expires > Date.now()
CachedAuth(cache, serverId) == {e \in cache : e.serverId = serverId /\ e.expires > now}

RetryableMutant(r, code) == code # 200 /\ r.round = 1

\* a 401 on the first data request
Retryable(r, code) == code = 401 /\ r.round = 1

\* makeAuthenticatedRequest(server, endpoint) is called
BearerRequests(d) ==
    {[pc |-> "auth", kind |-> "Bearer", status |-> 0, serverId |-> sv.id, token |-> NULL,
      round |-> 1, calls |-> <<>>, codes |-> <<>>] : sv \in d.servers}

\* authenticate, then the data request; after a 401 on the first data
\* request the entry is deleted and both are done once more
BearerStep(d, r) ==
    IF r.pc = "auth"
      THEN IF CachedAuth(d.authTokens, r.serverId) # {}
             THEN {Goto(d, [r EXCEPT !.token = e.token], "data") : e \in CachedAuth(d.authTokens, r.serverId)}
             ELSE LET r1 == [r EXCEPT !.calls = Append(@, "auth")] IN
                    {Goto([d EXCEPT !.authTokens = {e \in @ : e.serverId # r.serverId}
                                       \cup {[serverId |-> r.serverId, token |-> a.token,
                                               expires |-> now + a.expires]}],
                          [r1 EXCEPT !.token = a.token], "data") : a \in AuthResponses}
                    \cup {Respond(d, r1, 500)}
      ELSE LET r1 == [r EXCEPT !.calls = Append(@, "data")] IN
             {IF code = 200 THEN Respond(d, [r1 EXCEPT !.codes = Append(@, code)], 200)
              ELSE IF Retryable(r, code)
                THEN Goto([d EXCEPT !.authTokens = {e \in @ : e.serverId # r.serverId}],
                          [r1 EXCEPT !.codes = Append(@, code), !.round = 2, !.token = NULL], "auth")
                ELSE Respond(d, [r1 EXCEPT !.codes = Append(@, code)], 500) : code \in {200, 401, 503}}

(* ------------------ the browser's StreamWebSocket ---------------------- *)
oncloseMutant(c, k) ==
    IF c.reconnectTimer = 0
      THEN [c EXCEPT !.reconnectTimer = k, !.timers = @ \cup {[id |-> k, due |-> c.clock]}]
      ELSE c

\* this.ws.onclose of socket k
onclose(c, k) ==
    IF c.reconnectTimer = 0
      THEN [c EXCEPT !.reconnectTimer = k,
                     !.timers = @ \cup {[id |-> k, due |-> c.clock + ReconnectDelay]}]
      ELSE c

\* the browser delivers the close event of a socket
SocketCloses ==
    /\ \E k \in 1..Len(client.sockets) :
          /\ client.sockets[k].state # "closed"
          /\ client' = onclose([client EXCEPT !.sockets[k].state = "closed",
                                              !.sockets[k].closedAt = client.clock], k)
    /\ UNCHANGED <<users, servers, streams, permissions, trafficStats, seq, req, now,
                   lastRun, upd, streamsStats, wss, authTokens>>

\* a pending timer is due: its callback runs
TimerFires ==
    /\ Len(client.sockets) < MaxSockets
    /\ \E t \in client.timers :
          /\ t.due = client.clock
          /\ client' = connect([client EXCEPT !.timers = @ \ {t}, !.reconnectTimer = 0])
    /\ UNCHANGED <<users, servers, streams, permissions, trafficStats, seq, req, now,
                   lastRun, upd, streamsStats, wss, authTokens>>

\* close() is called
Close ==
    /\ LET c1 == IF client.reconnectTimer # 0
                   THEN [client EXCEPT !.timers = {t \in @ : t.id # client.reconnectTimer},
                                       !.reconnectTimer = 0]
                   ELSE client
           c2 == IF c1.ws # 0
                   THEN [c1 EXCEPT !.sockets[c1.ws].state = IF @ = "open" THEN "closing" ELSE @,
                                   !.ws = 0]
                   ELSE c1
       IN client' = [c2 EXCEPT !.closed = IF @ = <<>> THEN <<Len(client.sockets)>> ELSE @]
    /\ UNCHANGED <<users, servers, streams, permissions, trafficStats, seq, req, now,
                   lastRun, upd, streamsStats, wss, authTokens>>

\* a second passes in the browser; a timer that is due fires first
Elapse ==
    /\ client.clock < MaxTime
    /\ \A t \in client.timers : t.due > client.clock
    /\ client' = [client EXCEPT !.clock = @ + 1]
    /\ UNCHANGED <<users, servers, streams, permissions, trafficStats, seq, req, now,
                   lastRun, upd, streamsStats, wss, authTokens>>

(* --------------------- running the handlers ---------------------------- *)
Step(d, r) ==
    CASE r.kind = "PostUser" -> PostUserStep(d, r)
      [] r.kind = "DeleteUser" -> DeleteUserStep(d, r)
      [] r.kind = "PostServer" -> PostServerStep(d, r)
      [] r.kind = "TestServer" -> TestServerStep(d, r)
      [] r.kind = "DeleteServer" -> DeleteServerStep(d, r)
      [] r.kind = "PostStream" -> PostStreamStep(d, r)
      [] r.kind = "PostPermission" -> PostPermissionStep(d, r)
      [] r.kind = "DeletePermission" -> DeletePermissionStep(d, r)
      [] r.kind = "GetPermitted" -> GetPermittedStep(d, r)
      [] r.kind = "GetStream" -> GetStreamStep(d, r)
      [] r.kind = "GetServerStreams" -> ReconStep(d, r)
      [] r.kind = "PostPush" -> PostPushStep(d, r)
      [] r.kind = "DeletePush" -> DeletePushStep(d, r)
      [] r.kind = "InitialStats" -> InitialStatsStep(d, r)
      [] r.kind = "Poll" -> PollStep(d, r)
      [] r.kind = "Broadcast" -> BroadcastStep(d, r)
      [] r.kind = "Bearer" -> BearerStep(d, r)

\* the handler run from r to its response, nothing else running in between
RECURSIVE Run(_, _)
Run(d, r) ==
    IF r.pc = "done" THEN {[d |-> d, r |-> r]}
    ELSE UNION {Run(n.d, n.r) : n \in Step(d, r)}

\* the reconciliation that has just completed, until the next request runs
LastRunAfter(n) ==
    IF n.r.kind = "GetServerStreams" /\ n.r.pc = "done" /\ n.r.status = 200
      THEN <<[serverId |-> n.r.serverId, list |-> n.r.list]>>
      ELSE <<>>

Apply(s, n) ==
    /\ users' = n.d.users
    /\ servers' = n.d.servers
    /\ streams' = n.d.streams
    /\ permissions' = n.d.permissions
    /\ trafficStats' = n.d.trafficStats
    /\ seq' = n.d.seq
    /\ upd' = n.d.upd
    /\ streamsStats' = n.d.streamsStats
    /\ wss' = n.d.wss
    /\ authTokens' = n.d.authTokens
    /\ client' = client
    /\ req' = [req EXCEPT ![s] = n.r]
    /\ lastRun' = LastRunAfter(n)
    /\ UNCHANGED now

\* no request is being handled
Quiet == \A s \in Slots : req[s].pc = "idle"

\* a request arrives on connection s and runs up to its first await
Begin(s, requests) ==
    /\ req[s].pc = "idle"
    /\ \E r \in requests : \E n \in Step(DB, r) : Apply(s, n)

\* the request on connection s runs up to its next await
Resume(s, kind) ==
    /\ req[s].kind = kind /\ req[s].pc \notin {"idle", "done"}
    /\ \E n \in Step(DB, req[s]) : Apply(s, n)

\* a request arrives while nothing else runs and is handled to its response
Serve(requests) ==
    /\ Quiet
    /\ \E r \in requests : \E n \in Run(DB, r) : Apply(First, n)

\* a request arrives while others wait at their awaits, is handled to its
\* response before any of them resumes, and its connection is free again
ServeAmid(requests) ==
    \E r \in requests : \E n \in Run(DB, r) : Apply(First, [d |-> n.d, r |-> req[First]])

\* the response has been sent; the connection is free again
Release(s) ==
    /\ req[s].pc = "done"
    /\ req' = [req EXCEPT ![s] = Idle]
    /\ UNCHANGED <<users, servers, streams, permissions, trafficStats, seq,
                   now, lastRun, upd, streamsStats, wss, authTokens, client>>

\* a month passes
Tick ==
    /\ Quiet
    /\ now < MaxClock
    /\ now' = now + 1
    /\ upd' = {}
    /\ UNCHANGED <<users, servers, streams, permissions, trafficStats, seq, req, lastRun,
                   streamsStats, wss, authTokens, client>>

PostServer == Serve(PostServerRequests(DB))
DeleteUser == Serve(DeleteUserRequests(DB))
TestServer == Serve(TestServerRequests(DB))
DeleteServer == Serve(DeleteServerRequests(DB))
PostStream == Serve(PostStreamRequests(DB))
PostPermission == Serve(PostPermissionRequests(DB))
DeletePermission == Serve(DeletePermissionRequests(DB))
GetPermitted == Serve(GetPermittedRequests(DB))
GetStream == Serve(GetStreamRequests(DB))
GetServerStreams == Serve(ReconRequests(DB))
PostPush == Serve(PushRequests(DB, "PostPush"))
DeletePush == Serve(PushRequests(DB, "DeletePush"))
InitialStats == Serve(InitialStatsRequests(DB))
Poll == Serve(PollRequests(DB))
Connect == Serve(ConnectRequests(DB))
Broadcast == Serve(BroadcastRequests(DB))

PostUserBegin(s) == Begin(s, PostUserRequests(DB))
PostUserResume(s) == Resume(s, "PostUser")
DeleteUserBegin(s) == Begin(s, DeleteUserRequests(DB))
DeleteUserResume(s) == Resume(s, "DeleteUser")
DeleteServerBegin(s) == Begin(s, DeleteServerRequests(DB))
DeleteServerResume(s) == Resume(s, "DeleteServer")
PostPermissionBegin(s) == Begin(s, PostPermissionRequests(DB))
PostPermissionResume(s) == Resume(s, "PostPermission")
GetServerStreamsBegin(s) == Begin(s, ReconRequests(DB))
GetServerStreamsResume(s) == Resume(s, "GetServerStreams")

(* --------------------------- specifications ---------------------------- *)
\* user administration, the requests interleaved at their awaits
NextUsers ==
    \/ \E s \in Slots : PostUserBegin(s)
    \/ \E s \in Slots : PostUserResume(s)
    \/ \E s \in Slots : DeleteUserBegin(s)
    \/ \E s \in Slots : DeleteUserResume(s)
    \/ \E s \in Slots : Release(s)

SpecUsers == Init /\ [][NextUsers]_vars

\* reconciliation on request, one request at a time
NextRecon ==
    \/ PostServer
    \/ PostStream
    \/ GetServerStreams
    \/ Release(First)

SpecRecon == Init /\ [][NextRecon]_vars

\* grants and the permitted-streams list, one request at a time
NextAccess ==
    \/ PostServer
    \/ PostStream
    \/ PostPermission
    \/ DeletePermission
    \/ GetPermitted
    \/ Release(First)

SpecAccess == Init /\ [][NextAccess]_vars

\* the other stream-returning endpoints, one request at a time
NextFilter ==
    \/ PostServer
    \/ GetServerStreams
    \/ PostPermission
    \/ GetStream
    \/ Release(First)

SpecFilter == Init /\ [][NextFilter]_vars

\* server deletion and reconciliation, interleaved at their awaits
NextCascade ==
    \/ PostServer
    \/ GetServerStreamsBegin(First)
    \/ GetServerStreamsResume(First)
    \/ \E s \in Slots : DeleteServerBegin(s)
    \/ \E s \in Slots : DeleteServerResume(s)
    \/ \E s \in Slots : Release(s)

SpecCascade == Init /\ [][NextCascade]_vars

\* traffic aggregation driven by connecting websocket clients
NextTraffic ==
    \/ PostServer
    \/ GetServerStreams
    \/ InitialStats
    \/ Tick
    \/ Release(First)

SpecTraffic == Init /\ [][NextTraffic]_vars

\* grants and revocations, one request at a time, a grant in its two steps
NextGrants ==
    \/ PostServer
    \/ PostStream
    \/ DeletePermission
    \/ PostPermissionBegin(First)
    \/ PostPermissionResume(First)
    \/ Release(First)

SpecGrants == Init /\ [][NextGrants]_vars

\* grants interleaved with a reconciliation
NextPerms ==
    \/ PostServer
    \/ GetServerStreamsBegin(First)
    \/ GetServerStreamsResume(First)
    \/ \E s \in Slots : PostPermissionBegin(s)
    \/ \E s \in Slots : PostPermissionResume(s)
    \/ \E s \in Slots : Release(s)

SpecPerms == Init /\ [][NextPerms]_vars

\* the endpoints addressed by a row id, one request at a time
NextById ==
    \/ PostServer
    \/ PostStream
    \/ GetServerStreams
    \/ DeleteServer
    \/ TestServer
    \/ GetStream
    \/ PostPush
    \/ DeletePush
    \/ DeleteUser
    \/ Release(First)

SpecById == Init /\ [][NextById]_vars

\* an installation where n media servers have been registered
InitRegistered(n) ==
    /\ users = {[id |-> 1, username |-> "admin", isAdmin |-> TRUE],
                [id |-> 2, username |-> "alice", isAdmin |-> FALSE]}
    /\ servers = {[id |-> i, status |-> "online", lastError |-> NULL, lastErrorAt |-> NoTime] : i \in 1..n}
    /\ streams = {}
    /\ permissions = {}
    /\ trafficStats = {}
    /\ seq = [users |-> 3, servers |-> n + 1, streams |-> 1, permissions |-> 1, trafficStats |-> 1]
    /\ req = [s \in Slots |-> Idle]
    /\ now = 0
    /\ lastRun = <<>>
    /\ upd = {}
    /\ streamsStats = {}
    /\ wss = NoClients
    /\ authTokens = {}
    /\ client = connect(NoSocket)

\* the polling loop next to the on-request reconciliation
NextPoll ==
    \/ PostStream
    \/ GetServerStreams
    \/ Poll
    \/ Release(First)

SpecPoll == InitRegistered(2) /\ [][NextPoll]_vars

\* servers are created, tested and deleted, one request at a time
NextServers ==
    \/ PostServer
    \/ TestServer
    \/ PostStream
    \/ DeleteServer
    \/ Tick
    \/ Release(First)

SpecServers == Init /\ [][NextServers]_vars

\* a client connects after streams were posted and reconciled
NextFanout ==
    \/ PostStream
    \/ GetServerStreams
    \/ InitialStats
    \/ Release(First)

SpecFanout == InitRegistered(1) /\ [][NextFanout]_vars

\* overlapping reconciliations next to POST /api/streams
NextOverlap ==
    \/ PostServer
    \/ PostStream
    \/ \E s \in Slots : GetServerStreamsBegin(s)
    \/ \E s \in Slots : GetServerStreamsResume(s)
    \/ \E s \in Slots : Release(s)

SpecOverlap == Init /\ [][NextOverlap]_vars

\* the broadcast interval next to reconciliations and connecting clients
NextBroadcast ==
    \/ GetServerStreams
    \/ PostStream
    \/ Connect
    \/ Broadcast
    \/ Release(First)

SpecBroadcast == InitRegistered(1) /\ [][NextBroadcast]_vars

\* broadcast ticks and catch-up bursts interleaved at their awaits, with
\* reconciliations between their steps
NextOrder ==
    \/ ServeAmid(ReconRequests(DB))
    \/ \E s \in Slots \ {First} : Begin(s, ConnectRequests(DB))
    \/ \E s \in Slots \ {First} : Resume(s, "InitialStats")
    \/ Begin(First, BroadcastRequests(DB))
    \/ Resume(First, "Broadcast")
    \/ \E s \in Slots : Release(s)

SpecOrder == InitRegistered(1) /\ [][NextOrder]_vars

\* the page's socket: the browser closes sockets, time passes, timers fire,
\* and the page may call close()
NextClient ==
    \/ SocketCloses
    \/ TimerFires
    \/ Close
    \/ Elapse

SpecClient == Init /\ [][NextClient]_vars

\* vendor requests with bearer tokens, one at a time, step by step
NextBearer ==
    \/ Begin(First, BearerRequests(DB))
    \/ Resume(First, "Bearer")
    \/ Tick
    \/ Release(First)

SpecBearer == InitRegistered(2) /\ [][NextBearer]_vars

\* push destinations, one request at a time
NextPush ==
    \/ PostServer
    \/ PostStream
    \/ PostPush
    \/ DeletePush
    \/ Release(First)

SpecPush == Init /\ [][NextPush]_vars

(* ------------------------------ claims --------------------------------- *)
\* C1: at least one admin always exists, under any interleaving of
\* POST /api/users and DELETE /api/users/:id requests.
AtLeastOneAdmin == \E u \in users : u.isAdmin

SoleAdmin(us, uid) == \E u \in us : u.id = uid /\ u.isAdmin /\ Admins(us) = {u}

\* C2: a DELETE /api/users/:id that arrives while its target is the only
\* admin is answered 400 and leaves the users table unchanged.
LastAdminDeleteRejected ==
    [][\A s \in Slots :
          (req[s].pc = "idle" /\ req'[s].kind = "DeleteUser" /\ SoleAdmin(users, req'[s].userId))
             => (req'[s].pc = "done" /\ req'[s].status = 400 /\ users' = users)]_vars

LastAdminDeleteRejectedWitness ==
    \E s \in Slots : /\ req[s].pc = "done" /\ req[s].kind = "DeleteUser"
                     /\ req[s].status = 400 /\ SoleAdmin(users, req[s].userId)

\* a reconciliation of GET /api/servers/:serverId/streams runs to its 200
ReconRuns == /\ req[First].pc = "idle"
             /\ req'[First].kind = "GetServerStreams"
             /\ req'[First].status = 200

RowsFor(sts, serverId, key) == {st \in sts : st.serverId = serverId /\ st.streamKey = key}

\* C3: a reconciliation that directly follows a reconciliation of the same
\* server with the same vendor list inserts no row, leaves the stream rows
\* as they were (lastSeen aside), and every vendor key has exactly one row.
ReconIdempotent ==
    [][(ReconRuns /\ lastRun = <<[serverId |-> req'[First].serverId, list |-> req'[First].list]>>)
          => /\ req'[First].inserted = {}
             /\ Ident(streams') = Ident(streams)
             /\ \A i \in 1..Len(req'[First].list) :
                   Cardinality(RowsFor(streams', req'[First].serverId, req'[First].list[i].name)) = 1]_vars

\* C4: a reconciliation that observes a vendor key without a row for
\* (serverId, key) leaves exactly one row for it, a new one, with active
\* TRUE and streamStatus the fetched snapshot.
NewStreamInserted ==
    [][ReconRuns =>
          \A i \in 1..Len(req'[First].list) :
             LET key == req'[First].list[i].name
                 after == RowsFor(streams', req'[First].serverId, key)
             IN RowsFor(streams, req'[First].serverId, key) = {}
                  => /\ Cardinality(after) = 1
                     /\ \A st \in after : /\ st.active
                                          /\ st.streamStatus = <<req'[First].list[i]>>
                                          /\ st.id \in req'[First].inserted
                                          /\ st.id \notin {x.id : x \in streams}]_vars

NewStreamInsertedWitness ==
    /\ req[First].pc = "done" /\ req[First].kind = "GetServerStreams" /\ req[First].status = 200
    /\ \E st \in streams : /\ st.id \in req[First].inserted
                           /\ st.serverId = req[First].serverId
                           /\ \E i \in 1..Len(req[First].list) :
                                 st.streamKey = req[First].list[i].name /\ st.active

Granted(user, st) == \E p \in permissions : p.userId = user.id /\ p.streamId = st.id

\* C5: GET /api/streams/permitted returns to a non-admin exactly the streams
\* granted to that user (none without a grant), and to an admin every stream.
PermittedIsolation ==
    \A s \in Slots :
       (req[s].pc = "done" /\ req[s].kind = "GetPermitted")
          => /\ req[s].status = 200
             /\ req[s].rows = IF req[s].actor.isAdmin THEN streams
                              ELSE {st \in streams : Granted(req[s].actor, st)}

PermittedIsolationWitness ==
    \E s \in Slots : /\ req[s].pc = "done" /\ req[s].kind = "GetPermitted"
                     /\ ~req[s].actor.isAdmin
                     /\ Cardinality(req[s].rows) = 1
                     /\ \E st \in streams : st \notin req[s].rows

\* C6: to a non-admin GET /api/servers/:serverId/streams returns only granted
\* streams, and GET /api/streams/:streamId of a stream that is not granted is
\* answered as for a stream that does not exist: 404, no row.
AccessFilter ==
    \A s \in Slots :
       req[s].pc = "done"
          => /\ (req[s].kind = "GetServerStreams" /\ req[s].status = 200 /\ ~req[s].actor.isAdmin)
                   => \A st \in req[s].rows : Granted(req[s].actor, st)
             /\ (req[s].kind = "GetStream" /\ ~req[s].actor.isAdmin
                   /\ ~\E st \in streams : st.id = req[s].streamId /\ Granted(req[s].actor, st))
                   => (req[s].status = 404 /\ req[s].rows = {})

AccessFilterWitness ==
    \E s \in Slots : /\ req[s].pc = "done" /\ req[s].kind = "GetStream"
                     /\ ~req[s].actor.isAdmin /\ req[s].status = 404
                     /\ \E st \in streams : st.id = req[s].streamId
                     /\ \E p \in permissions : p.streamId = req[s].streamId

\* C7: a DELETE /api/servers/:id on a server that has stream rows removes
\* the server row and all of its stream rows.
ServerDeleteCascades ==
    \A s \in Slots :
       (req[s].pc = "done" /\ req[s].kind = "DeleteServer" /\ req[s].found /\ req[s].owned # {})
          => /\ ~\E sv \in servers : sv.id = req[s].serverId
             /\ ~\E st \in streams : st.serverId = req[s].serverId

\* C8: after two traffic updates of a stream within one month there is
\* exactly one traffic_stats row for (streamId, year, month), holding the
\* values of the second update.
TrafficUpsert ==
    \A u \in upd :
       u.n = 2 =>
          LET rows == {t \in trafficStats :
                         t.streamId = u.streamId /\ t.year = u.year /\ t.month = u.month}
          IN /\ Cardinality(rows) = 1
             /\ \A t \in rows : t.bytesIn = u.bytesIn /\ t.bytesOut = u.bytesOut

HasScheme(str) == StartsWith(str, Rtmp) \/ StartsWith(str, Rtmps)
WellFormed(url) == url.type = "string" /\ HasScheme(url.str)

\* C9: POST .../push with a url that is missing, not a string or without the
\* rtmp:// or rtmps:// prefix is answered 400 with no vendor call; with the
\* prefix, for an existing stream on an existing server, the url is passed
\* to addPushDestination with the stream's streamKey.
PostPushValidated ==
    \A s \in Slots :
       (req[s].pc = "done" /\ req[s].kind = "PostPush")
          => /\ ~WellFormed(req[s].url) => (req[s].status = 400 /\ req[s].call = <<>>)
             /\ WellFormed(req[s].url) =>
                   \A st \in streams :
                      (st.id = req[s].streamId /\ \E sv \in servers : sv.id = st.serverId)
                         => req[s].call = <<[op |-> "addPushDestination", serverId |-> st.serverId,
                                             streamKey |-> st.streamKey, url |-> req[s].url.str]>>

PostPushValidatedWitness ==
    \E s \in Slots :
       /\ req[s].pc = "done" /\ req[s].kind = "PostPush"
       /\ req[s].status = 200 /\ req[s].call # <<>> /\ StartsWith(req[s].url.str, Rtmps)

\* C10: DELETE .../push with a url that does not match ^(rtmp|rtmps):// is
\* answered 400 and removePushDestination is not called.
DeletePushValidated ==
    \A s \in Slots :
       (req[s].pc = "done" /\ req[s].kind = "DeletePush" /\ ~WellFormed(req[s].url))
          => (req[s].status = 400 /\ req[s].call = <<>>)

\* the messages of a finished connection handshake that are about stream st
SentAbout(s, st) == {i \in 1..Len(req[s].sent) : req[s].sent[i].streamId = st.id}

\* C11 as stated: a connecting client is sent one 'stats' message for every
\* stream row that exists at that moment.
CatchUpEveryRow ==
    \A s \in Slots :
       (req[s].pc = "done" /\ req[s].kind = "InitialStats")
          => \A st \in streams : Cardinality(SentAbout(s, st)) = 1

\* C11 amended: a connecting client is sent, within the handling of the
\* connection, exactly one 'stats' message for every stream row that has a
\* persisted snapshot, carrying that snapshot, and none for a row without one.
CatchUpRowsWithSnapshot ==
    \A s \in Slots :
       (req[s].pc = "done" /\ req[s].kind = "InitialStats")
          => \A st \in streams :
                IF st.streamStatus = <<>>
                  THEN SentAbout(s, st) = {}
                  ELSE /\ Cardinality(SentAbout(s, st)) = 1
                       /\ \A i \in SentAbout(s, st) :
                             /\ req[s].sent[i].type = "stats"
                             /\ req[s].sent[i].data = st.streamStatus[1]

CatchUpWitness ==
    \E s \in Slots :
       /\ req[s].pc = "done" /\ req[s].kind = "InitialStats"
       /\ Len(req[s].sent) >= 1
       /\ \E st \in streams : st.streamStatus # <<>> /\ st.streamStatus[1].stats.bytes_in > 0

\* a request of the given kind is taken and answered in this step
Answered(kind) == req[First] = Idle /\ req'[First].pc = "done" /\ req'[First].kind = kind

\* C12: POST /api/servers inserts a row, with status online, only after
\* validateAuth has succeeded; when validation fails the response is 400,
\* the table has no new row and no existing row is changed.
ValidateThenPersist ==
    [][Answered("PostServer") =>
         IF req'[First].valid
           THEN /\ req'[First].status = 200
                /\ servers \subseteq servers'
                /\ \E sv \in servers' \ servers :
                      /\ servers' = servers \cup {sv}
                      /\ sv.status = "online"
                      /\ sv.id \notin {x.id : x \in servers}
           ELSE /\ req'[First].status = 400
                /\ servers' = servers]_vars

ValidateThenPersistWitness ==
    /\ req[First].pc = "done" /\ req[First].kind = "PostServer"
    /\ req[First].status = 400 /\ ~req[First].valid
    /\ servers # {}

\* C15: POST /api/servers/:id/test on an existing server ends with the row
\* online, lastError and lastErrorAt null and a 200 exactly when validateAuth
\* succeeded; otherwise the row ends offline with lastError set and the
\* response is 400 carrying that row.
TestOutcome ==
    [][(Answered("TestServer") /\ \E sv \in servers : sv.id = req'[First].serverId) =>
         LET r == req'[First]
             row == {sv \in servers' : sv.id = r.serverId}
         IN /\ Cardinality(row) = 1
            /\ {sv \in servers' : sv.id # r.serverId} = {sv \in servers : sv.id # r.serverId}
            /\ \A sv \in row :
                  /\ r.body = <<sv>>
                  /\ IF r.valid
                       THEN /\ r.status = 200 /\ sv.status = "online"
                            /\ sv.lastError = NULL /\ sv.lastErrorAt = NoTime
                       ELSE /\ r.status = 400 /\ sv.status = "offline"
                            /\ sv.lastError \in AuthErrors /\ sv.lastErrorAt = now]_vars

\* a failed test of a server that a passed test follows
TestOutcomeWitness ==
    /\ req[First].pc = "done" /\ req[First].kind = "TestServer"
    /\ req[First].status = 400 /\ ~req[First].valid
    /\ \E sv \in servers : sv.id = req[First].serverId /\ sv.status = "offline"

\* C13: at every moment, under any interleaving of POST /api/permissions
\* requests and reconciliations run by an admin, there is at most one
\* permission row for a (userId, streamId) pair.
PermissionUnique ==
    \A p, q \in permissions :
       (p.userId = q.userId /\ p.streamId = q.streamId) => p = q

\* C14: a POST /api/permissions for a pair that already has a row is answered
\* 400 and leaves the permissions table unchanged.
DuplicateGrantRejected ==
    [][\A s \in Slots :
         (/\ req[s] = Idle /\ req'[s].kind = "PostPermission"
          /\ HasPermission(DB, req'[s].userId, req'[s].streamId))
            => /\ req'[s].pc = "done" /\ req'[s].status = 400
               /\ permissions' = permissions]_vars

DuplicateGrantRejectedWitness ==
    \E s \in Slots :
       /\ req[s].pc = "done" /\ req[s].kind = "PostPermission" /\ req[s].status = 400
       /\ HasPermission(DB, req[s].userId, req[s].streamId)

\* the request r names, in its path, the id of a row that is not in the table
AddressesNoRow(d, r) ==
    CASE r.kind \in {"GetServerStreams", "DeleteServer", "TestServer"} ->
           ~\E sv \in d.servers : sv.id = r.serverId
      [] r.kind = "GetStream" ->
           ~\E st \in d.streams : st.id = r.streamId
      [] r.kind \in {"PostPush", "DeletePush"} ->
           \* with an rtmp url in the body
           /\ ~\E st \in d.streams : st.id = r.streamId
           /\ ~PostPushChecks(r)
      [] r.kind = "DeleteUser" ->
           ~\E u \in d.users : u.id = r.userId
      [] OTHER -> FALSE

\* C16: every endpoint addressed by id answers 404 when no row with that id
\* exists, in every state, and changes no row.
NotFoundAnswered ==
    [][(/\ req[First] = Idle /\ req'[First].pc = "done"
        /\ AddressesNoRow(DB, req'[First]))
          => /\ req'[First].status = 404
             /\ UNCHANGED <<users, servers, streams, permissions, trafficStats>>]_vars

\* the server row carries the vendor error of this moment
ErrorRecorded(svs, serverId) ==
    \A sv \in svs : sv.id = serverId => sv.lastError \in VendorErrors /\ sv.lastErrorAt = now

\* the stats column of a stream row, <<>> when null
StatsOf(ss, streamId) == {e.stats : e \in {x \in ss : x.id = streamId}}

\* C17: when the vendor stream-list call for a server fails, the tick writes
\* no stream row of that server, in the on-request reconciliation and in the
\* polling loop alike, and the server row's lastError and lastErrorAt are
\* updated.
NoWritesOnVendorFailure ==
    [][/\ (Answered("GetServerStreams") /\ req'[First].status = 500)
            => /\ streams' = streams /\ streamsStats' = streamsStats
               /\ ErrorRecorded(servers', req'[First].serverId)
       /\ Answered("Poll")
            => \A sid \in req'[First].failed :
                  /\ ErrorRecorded(servers', sid)
                  /\ \A st \in streams : st.serverId = sid => st.id \notin req'[First].wrote]_vars

\* C18: within one polling tick a failure while processing a server (its
\* vendor fetch or a write for one of its streams) does not keep any later
\* server of the tick from being fetched and updated.
PollIsolation ==
    \A s \in Slots :
       (req[s].pc = "done" /\ req[s].kind = "Poll")
          => \A i \in 1..Len(req[s].all) :
                /\ req[s].all[i] \in req[s].fetched
                /\ \A st \in streams : st.serverId = req[s].all[i] => st.id \in req[s].wrote

\* the names of a vendor list
Names(list) == {list[i].name : i \in 1..Len(list)}

\* C19: a reconciliation or polling tick for a server changes no field of a
\* stream row of that server whose streamKey does not occur in the vendor's
\* response of the tick.
AbsentStreamsUntouched ==
    [][/\ (Answered("GetServerStreams") /\ req'[First].status = 200)
            => \A st \in streams :
                  (st.serverId = req'[First].serverId /\ st.streamKey \notin Names(req'[First].list))
                     => st \in streams' /\ StatsOf(streamsStats', st.id) = StatsOf(streamsStats, st.id)
       /\ Answered("Poll")
            => \A st \in streams :
                  st.id \in req'[First].absent
                     => st \in streams' /\ StatsOf(streamsStats', st.id) = StatsOf(streamsStats, st.id)]_vars

\* C20: every reconciliation that inserts or updates a stream row with a
\* status snapshot runs the traffic aggregation for that stream, so that
\* afterwards a traffic_stats row of the stream and the current year and
\* month holds the snapshot's byte counters, with or without a connected
\* websocket client.
ReconAggregatesTraffic ==
    \A s \in Slots :
       (req[s].pc = "done" /\ req[s].kind = "GetServerStreams" /\ req[s].status = 200)
          => \A i \in 1..Len(req[s].list) :
                \A st \in RowsFor(streams, req[s].serverId, req[s].list[i].name) :
                   \E t \in trafficStats :
                      /\ t.streamId = st.id /\ t.year = Year(now) /\ t.month = Month(now)
                      /\ t.bytesIn = req[s].list[i].stats.bytes_in
                      /\ t.bytesOut = req[s].list[i].stats.bytes_out

\* C21: in every reachable state, under any interleaving of reconciliations
\* of one server and POST /api/streams requests, no two stream rows have the
\* same (serverId, streamKey).
StreamUnique ==
    \A a, b \in streams :
       (a.serverId = b.serverId /\ a.streamKey = b.streamKey) => a = b

\* the messages of a finished broadcast tick about stream st that went to client c
TickSent(s, st, c) ==
    {i \in 1..Len(req[s].sent) : req[s].sent[i].streamId = st.id /\ c \in req[s].sent[i].to}

\* C22: on every broadcast tick one 'stats' message per stream row is sent to
\* every connected client (checked for the rows that have a snapshot and the
\* ticks in which no send throws).
PeriodicFanout ==
    \A s \in Slots :
       (req[s].pc = "done" /\ req[s].kind = "Broadcast" /\ req[s].threw = 0)
          => \A st \in streams : \A c \in wss.clients :
                st.streamStatus # <<>> => Cardinality(TickSent(s, st, c)) = 1

\* C23: within a broadcast tick a send that throws for one client does not
\* keep that tick's messages, for that stream and all later streams, from
\* every other open client.
BadClientIsolated ==
    \A s \in Slots :
       (req[s].pc = "done" /\ req[s].kind = "Broadcast" /\ req[s].threw # 0)
          => \A st \in streams : \A c \in wss.clients \ {req[s].threw} :
                st.streamStatus # <<>> => TickSent(s, st, c) # {}

\* C28: the 'stats' messages a client gets for a stream never carry a snapshot
\* read from the database before the snapshot of a message the client already
\* got for that stream (and different from it), also when a broadcast tick
\* and a catch-up burst overlap.
SnapshotsInOrder ==
    [][\A e \in wss.inbox : \A f \in wss'.inbox :
         (e.client = f.client /\ e.streamId = f.streamId)
            => f.readSeq >= e.readSeq \/ f.data = e.data]_vars

\* this step is a call of authenticate by the request on the first connection
Authenticates ==
    /\ req'[First].kind = "Bearer"
    /\ req[First] = Idle \/ (req[First].kind = "Bearer" /\ req[First].pc = "auth")

\* the vendor calls the first connection's request makes in this step
NewCalls ==
    LET before == IF req[First] = Idle THEN <<>> ELSE req[First].calls
    IN SubSeq(req'[First].calls, Len(before) + 1, Len(req'[First].calls))

\* C24: authenticate returns a token from the cache without contacting the
\* vendor only if the cache holds an entry of that server whose expiry is
\* strictly greater than the current time; with no entry, or one whose expiry
\* is at most now, it asks the vendor for a token and overwrites the entry of
\* that server only.
CacheHitOnlyUnexpired ==
    [][Authenticates =>
         LET id == req'[First].serverId
             live == {e \in authTokens : e.serverId = id /\ e.expires > now}
         IN /\ {e \in authTokens' : e.serverId # id} = {e \in authTokens : e.serverId # id}
            /\ IF live # {}
                 THEN /\ NewCalls = <<>> /\ authTokens' = authTokens
                      /\ \E e \in live : req'[First].token = e.token
                 ELSE /\ NewCalls = <<"auth">>
                      /\ \/ req'[First].pc = "done" /\ authTokens' = authTokens
                         \/ /\ req'[First].pc = "data"
                            /\ \E e \in authTokens' :
                                  /\ e.serverId = id /\ e.token = req'[First].token
                                  /\ e.expires >= now
                                  /\ {x \in authTokens' : x.serverId = id} = {e}]_vars

\* authenticate asked the vendor and cached the answer, which is still live,
\* next to another server's entry that has run out
CacheHitOnlyUnexpiredWitness ==
    /\ req[First].kind = "Bearer" /\ req[First].pc = "data" /\ req[First].calls = <<"auth">>
    /\ \E e \in authTokens : e.serverId = req[First].serverId /\ e.expires > now
    /\ \E e \in authTokens : e.serverId # req[First].serverId /\ e.expires <= now

\* C25: makeAuthenticatedRequest sends the data request at most twice; the
\* second only after a 401 on the first, after the server's cached token was
\* evicted and a new one fetched; a second response that is not OK fails the
\* call with no third request; another failure of the first is not retried.
SingleRetry ==
    \A s \in Slots :
       req[s].kind = "Bearer" =>
          LET data == SelectSeq(req[s].calls, LAMBDA c : c = "data")
              r == req[s]
          IN /\ Len(data) <= 2 /\ Len(r.codes) = Len(data)
             /\ Len(data) = 2 => /\ r.codes[1] = 401
                                 /\ \E i \in 1..Len(r.calls) :
                                       /\ r.calls[i] = "auth"
                                       /\ \E j, k \in 1..Len(r.calls) :
                                             j < i /\ i < k /\ r.calls[j] = "data" /\ r.calls[k] = "data"
             /\ (r.pc = "done" /\ Len(data) >= 1)
                   => r.status = IF r.codes[Len(data)] = 200 THEN 200 ELSE 500
             /\ (Len(data) = 1 /\ r.codes[1] \notin {200, 401}) => r.pc = "done"
             /\ (r.pc = "auth" /\ r.round = 2) => ~\E e \in authTokens : e.serverId = r.serverId

SingleRetryWitness ==
    \E s \in Slots :
       /\ req[s].kind = "Bearer" /\ req[s].pc = "done" /\ req[s].status = 500
       /\ req[s].codes = <<401, 401>>

\* C26: as long as close() was not called, a socket whose close event was
\* delivered is followed by a new connection made ReconnectDelay seconds
\* after the event (the timer is pending until then); and at no time is more
\* than one reconnect timer pending, close() or not.
ReconnectAfterDelay ==
    /\ Cardinality(client.timers) <= 1
    /\ client.closed = <<>> =>
          \A k \in 1..Len(client.sockets) :
             client.sockets[k].state = "closed" =>
                \/ /\ k = Len(client.sockets)
                   /\ client.clock <= client.sockets[k].closedAt + ReconnectDelay
                   /\ client.timers = {[id |-> k, due |-> client.sockets[k].closedAt + ReconnectDelay]}
                \/ /\ k < Len(client.sockets)
                   /\ client.sockets[k + 1].openedAt = client.sockets[k].closedAt + ReconnectDelay

\* two sockets in a row were closed by the browser and replaced
ReconnectAfterDelayWitness ==
    /\ client.closed = <<>>
    /\ Len(client.sockets) = 3
    /\ client.sockets[2].state = "closed"
    /\ client.sockets[1].closedAt > 0

\* C27: once close() was called no reconnect timer is pending and the
\* instance opens no further socket, also when the socket's close event
\* arrives after close() returned.
CloseIsFinal ==
    client.closed # <<>> =>
       /\ client.timers = {}
       /\ Len(client.sockets) = client.closed[1]

\* C29: DELETE /api/users/:id is answered 400 only when the target is an
\* admin and the only admin; the deletion of an existing user who is not an
\* admin is answered 200 and removes the row of that user and no other.
LastAdminOnly ==
    [][\A s \in Slots :
         (req'[s].kind = "DeleteUser" /\ req'[s] # req[s] /\ req'[s].pc = "done") =>
            LET target == {u \in users : u.id = req'[s].userId} IN
              /\ req'[s].status = 400 => (target # {} /\ Admins(users) = target)
              /\ (target # {} /\ Admins(target) = {}) =>
                     (req'[s].status = 200 /\ users' = users \ target)]_vars

\* C30: a push request of a user who is not an admin reaches the vendor
\* client only if a permission row (user, stream) exists; without one the
\* vendor client is not called and the answer is the 404 of a stream that
\* does not exist.
PushNeedsPermission ==
    \A s \in Slots :
       (/\ req[s].kind \in {"PostPush", "DeletePush"}
        /\ ~req[s].actor.isAdmin
        /\ ~HasPermission(DB, req[s].actor.id, req[s].streamId)) =>
          /\ req[s].call = <<>>
          /\ req[s].pc = "done" => req[s].status \in {400, 404}
====
